---- MODULE Spec2Model ----
(***************************************************************************)
(* Model of the login defense engine of src/app/app.py: the sliding-window *)
(* attempt counters per account, per client address and global, the three  *)
(* lock/block deadlines, the /login handler that checks them and meters    *)
(* the attempt, and the admin endpoints that re-configure and reset them.  *)
(*                                                                         *)
(* Time is the value returned by now() (time.time()), counted in ticks.    *)
(* Spec runs every request handler as one step (requests do not overlap).  *)
(* The handlers hold no lock and the server runs one thread per request;   *)
(* the overlapping execution of handlers is modelled further below.        *)
(***************************************************************************)
EXTENDS Integers, Sequences, FiniteSets, TLC

\* ---------------------------------------------------------------- bounds
\* Largest clock value at which requests are still issued.
MaxTime == 2
\* Latest clock value at which the operator still posts a configuration.
MaxConfigTime == 0
\* Number of login requests that run as overlapping threads.
NReq == 3
\* Largest clock value reached while handlers overlap.
MaxConcTime == 1
\* Largest number of timestamps a window may hold before a further metered
\* attempt is issued.
MaxLen == 3

\* Usernames and client addresses named by the requests.
Accounts == {"u1", "u2"}
Addrs == {"x1", "x2"}
\* Passwords sent with a login: the valid one and a wrong one.
Passwords == {"Password123", "wrong"}
\* Values of the X-Admin-Token header.
Tokens == {"admintoken", "bad"}

\* ---------------------------------------------------- program constants
\* The threshold the operator tooling sets to switch a policy off.
Huge == 999999

VALID_USER == [username |-> "u1", password |-> "Password123"]

\* The defense configuration.  The keys are those of the source; the values
\* are the source's defaults scaled down to a few ticks (thresholds 5/50/100
\* become 2/3/3, windows and durations of 60..600 s become 1..2 ticks), as
\* the operator sets them through POST /admin/config before any attempt.
ScaledConfig ==
    [account_lock_threshold |-> 2,
     account_lock_window    |-> 2,
     account_lock_duration  |-> 2,
     ip_block_threshold     |-> 3,
     ip_block_window        |-> 2,
     ip_block_duration      |-> 2,
     global_rate_threshold  |-> 3,
     global_rate_window     |-> 1,
     global_block_duration  |-> 1,
     fake_ip_enabled        |-> FALSE,
     fake_ip_list           |-> <<"x1", "x2">>,
     admin_token            |-> "admintoken"]

\* Keys POST /admin/config accepts.
allowed ==
    {"account_lock_threshold", "account_lock_window", "account_lock_duration",
     "ip_block_threshold", "ip_block_window", "ip_block_duration",
     "global_rate_threshold", "global_rate_window", "global_block_duration",
     "fake_ip_enabled", "fake_ip_list", "admin_token"}

\* ------------------------------------------------------------------ state
VARIABLES
    clock,              \* the value now() returns
    CONFIG,             \* the configuration mapping
    account_attempts,   \* username -> sequence of timestamps
    locked_accounts,    \* username -> unlock timestamp
    ip_attempts,        \* address -> sequence of timestamps
    blocked_ips,        \* address -> unblock timestamp
    global_attempts,    \* sequence of timestamps
    global_block_until, \* time until which the global block is active
    resp,               \* the response to the last request since the last tick
    req,                \* overlapping login requests: position and locals
    a_owner,            \* username -> request whose lst object the dict holds
    i_owner,            \* address -> request whose ilst object the dict holds
    rst,                \* the overlapping reset handler: position, start time
    cfg                 \* the overlapping config handler: position, items left

engine == <<account_attempts, locked_accounts, ip_attempts, blocked_ips,
            global_attempts, global_block_until>>

threads == <<req, a_owner, i_owner, rst, cfg>>

vars == <<clock, CONFIG, account_attempts, locked_accounts, ip_attempts,
          blocked_ips, global_attempts, global_block_until, resp,
          req, a_owner, i_owner, rst, cfg>>

\* ------------------------------------------------------- dictionaries
EmptyDict == [k \in {} |-> 0]

\* d.get(k, default)
Get(d, k, default) == IF k \in DOMAIN d THEN d[k] ELSE default

\* d[k] = v
Put(d, k, v) == [x \in (DOMAIN d) \cup {k} |-> IF x = k THEN v ELSE d[x]]

\* ------------------------------------------------------------ helpers
now == clock

\* The pruning keeping one tick more than the window.
prune_old_wide(timestamps, window) ==
    LET cutoff == now - window - 1
        keep(t) == t >= cutoff
    IN SelectSeq(timestamps, keep)

\* The pruning with the cutoff itself excluded.
prune_old_strict(timestamps, window) ==
    LET cutoff == now - window
        keep(t) == t > cutoff
    IN SelectSeq(timestamps, keep)

\* [t for t in timestamps if t >= cutoff], cutoff = now() - window
prune_old(timestamps, window) ==
    LET cutoff == now - window
        keep(t) == t >= cutoff
    IN SelectSeq(timestamps, keep)

\* while global_attempts and global_attempts[0] < cut: global_attempts.pop(0)
RECURSIVE pop_while(_, _)
pop_while(ga, cut) ==
    IF ga # <<>> /\ Head(ga) < cut THEN pop_while(Tail(ga), cut) ELSE ga

\* is_account_locked with a grace tick: the lock still holds at unlock time.
is_account_locked_inclusive(username) ==
    LET unlock == Get(locked_accounts, username, 0)
    IN now <= unlock

is_account_locked(username) ==
    LET unlock == Get(locked_accounts, username, 0)
    IN now < unlock

is_ip_blocked(ip) ==
    LET unblock == Get(blocked_ips, ip, 0)
    IN now < unblock

check_global_block == now < global_block_until

\* The checks with the address check moved in front of the global one.
evaluate_ip_first(username, ip) ==
    IF is_ip_blocked(ip) THEN "AddressBlocked"
    ELSE IF check_global_block THEN "GlobalBlocked"
    ELSE IF is_account_locked(username) THEN "AccountLocked"
    ELSE "Admitted"

\* The checks at the top of the /login handler, in the handler's order.
evaluate(username, ip) ==
    IF check_global_block THEN "GlobalBlocked"
    ELSE IF is_ip_blocked(ip) THEN "AddressBlocked"
    ELSE IF is_account_locked(username) THEN "AccountLocked"
    ELSE "Admitted"

\* The HTTP status the handler returns with each decision.
StatusOf(decision, success) ==
    CASE decision = "GlobalBlocked"  -> 429
      [] decision = "AddressBlocked" -> 429
      [] decision = "AccountLocked"  -> 423
      [] OTHER -> IF success THEN 200 ELSE 401

NoResp == [op |-> "none", username |-> "", ip |-> "", decision |-> "", status |-> 0]

\* ---------------------------------------------------------------- record
\* The account window with the attempt appended and nothing pruned.
NewAccountWindow_unpruned(username) ==
    Append(Get(account_attempts, username, <<>>), now)

\* The three windows after the attempt is appended and the windows pruned.
NewAccountWindow(username) ==
    prune_old(Append(Get(account_attempts, username, <<>>), now),
              CONFIG.account_lock_window)

NewIpWindow(ip) ==
    prune_old(Append(Get(ip_attempts, ip, <<>>), now), CONFIG.ip_block_window)

NewGlobalWindow ==
    pop_while(Append(global_attempts, now), now - CONFIG.global_rate_window)

\* The threshold comparisons, off by one.
AccountBreached_strict(lst) == Len(lst) > CONFIG.account_lock_threshold
IpBreached_strict(ilst) == Len(ilst) > CONFIG.ip_block_threshold
GlobalBreached_strict(ga) == Len(ga) > CONFIG.global_rate_threshold

\* The account comparison against the built-in threshold, not the configured one.
AccountBreached_default(lst) == Len(lst) >= ScaledConfig.account_lock_threshold

\* The threshold comparisons that set a deadline.
AccountBreached(lst) == Len(lst) >= CONFIG.account_lock_threshold
IpBreached(ilst) == Len(ilst) >= CONFIG.ip_block_threshold
GlobalBreached(ga) == Len(ga) >= CONFIG.global_rate_threshold

record_login_attempt(username, ip) ==
    LET lst  == NewAccountWindow(username)
        ilst == NewIpWindow(ip)
        ga   == NewGlobalWindow
    IN /\ account_attempts' = Put(account_attempts, username, lst)
       /\ ip_attempts' = Put(ip_attempts, ip, ilst)
       /\ global_attempts' = ga
       /\ locked_accounts' =
            IF AccountBreached(lst)
            THEN Put(locked_accounts, username, now + CONFIG.account_lock_duration)
            ELSE locked_accounts
       /\ blocked_ips' =
            IF IpBreached(ilst)
            THEN Put(blocked_ips, ip, now + CONFIG.ip_block_duration)
            ELSE blocked_ips
       /\ global_block_until' =
            IF GlobalBreached(ga)
            THEN now + CONFIG.global_block_duration
            ELSE global_block_until

\* --------------------------------------------------------------- actions
\* The model issues a metered attempt only while the windows it grows hold
\* fewer than MaxLen timestamps.
Room(username, ip) ==
    /\ Len(Get(account_attempts, username, <<>>)) < MaxLen
    /\ Len(Get(ip_attempts, ip, <<>>)) < MaxLen
    /\ Len(global_attempts) < MaxLen

\* /login metering the attempt before it looks at the decision.
login_record_first(username, ip, password) ==
    LET decision == evaluate(username, ip)
        success  == username = VALID_USER.username /\ password = VALID_USER.password
    IN /\ resp' = [op |-> "login", username |-> username, ip |-> ip,
                   decision |-> decision, status |-> StatusOf(decision, success)]
       /\ Room(username, ip) /\ record_login_attempt(username, ip)
       /\ UNCHANGED <<clock, CONFIG>>

\* /login forgetting the account's attempts when the credentials are right.
login_success_clears(username, ip, password) ==
    LET decision == evaluate(username, ip)
        success  == username = VALID_USER.username /\ password = VALID_USER.password
    IN /\ resp' = [op |-> "login", username |-> username, ip |-> ip,
                   decision |-> decision, status |-> StatusOf(decision, success)]
       /\ IF decision = "Admitted"
          THEN /\ Room(username, ip)
               /\ IF success
                  THEN /\ account_attempts' = Put(account_attempts, username, <<>>)
                       /\ ip_attempts' = Put(ip_attempts, ip, NewIpWindow(ip))
                       /\ global_attempts' = NewGlobalWindow
                       /\ UNCHANGED <<locked_accounts, blocked_ips, global_block_until>>
                  ELSE record_login_attempt(username, ip)
          ELSE UNCHANGED engine
       /\ UNCHANGED <<clock, CONFIG>>

\* POST /login
login(username, ip, password) ==
    LET decision == evaluate(username, ip)
        success  == username = VALID_USER.username /\ password = VALID_USER.password
    IN /\ resp' = [op |-> "login", username |-> username, ip |-> ip,
                   decision |-> decision, status |-> StatusOf(decision, success)]
       /\ IF decision = "Admitted"
          THEN Room(username, ip) /\ record_login_attempt(username, ip)
          ELSE UNCHANGED engine
       /\ UNCHANGED <<clock, CONFIG>>

Login ==
    /\ clock <= MaxTime
    /\ \E username \in Accounts, ip \in Addrs, password \in Passwords :
            login(username, ip, password)
    /\ UNCHANGED threads

\* admin_auth(): the X-Admin-Token header against the configured token.
admin_auth(token) == token = CONFIG.admin_token

\* The bodies POST /admin/config is sent.  The first two are the operator
\* tooling's "disable" and "enable" patches for the account policy (with the
\* scaled values); the others shorten a duration, carry a key that is not on
\* the whitelist, and carry a negative duration.
Patches ==
    { [account_lock_threshold |-> Huge],
      [account_lock_threshold |-> 2, account_lock_window |-> 2,
       account_lock_duration |-> 2],
      [account_lock_duration |-> 1, bogus_key |-> 1],
      [account_lock_duration |-> -1] }

\* The merge without the whitelist: every key of the body is stored.
merge_config_all(config, data) ==
    [k \in (DOMAIN config) \cup (DOMAIN data) |->
            IF k \in DOMAIN data THEN data[k] ELSE config[k]]

\* for k,v in data.items(): if k in allowed: CONFIG[k] = v
merge_config(config, data) ==
    LET keys == {k \in DOMAIN data : k \in allowed}
    IN [k \in (DOMAIN config) \cup keys |->
            IF k \in keys THEN data[k] ELSE config[k]]

AdminResp(op, status) ==
    [op |-> op, username |-> "", ip |-> "", decision |-> "", status |-> status]

\* The config update dropping the account locks along with the merge.
admin_config_lifting(token, data) ==
    IF ~admin_auth(token)
    THEN /\ resp' = AdminResp("config", 401)
         /\ UNCHANGED <<clock, CONFIG, engine>>
    ELSE /\ CONFIG' = merge_config(CONFIG, data)
         /\ locked_accounts' = EmptyDict
         /\ resp' = AdminResp("config", 200)
         /\ UNCHANGED <<clock, account_attempts, ip_attempts, blocked_ips,
                        global_attempts, global_block_until>>

\* POST /admin/config
admin_config(token, data) ==
    IF ~admin_auth(token)
    THEN /\ resp' = AdminResp("config", 401)
         /\ UNCHANGED <<clock, CONFIG, engine>>
    ELSE /\ CONFIG' = merge_config(CONFIG, data)
         /\ resp' = AdminResp("config", 200)
         /\ UNCHANGED <<clock, engine>>

Configure ==
    /\ clock <= MaxConfigTime
    /\ \E token \in Tokens, data \in Patches : admin_config(token, data)
    /\ UNCHANGED threads

\* The body GET /admin/config returns.
InspectBody ==
    [config |-> CONFIG, locked_accounts |-> locked_accounts,
     blocked_ips |-> blocked_ips, global_block_until |-> global_block_until]

InspectResp(status, body) ==
    [op |-> "inspect", username |-> "", ip |-> "", decision |-> "",
     status |-> status, body |-> body]

\* The inspection dropping the expired locks from the mapping it reports.
admin_config_get_purging(token) ==
    IF ~admin_auth(token)
    THEN /\ resp' = InspectResp(401, "unauthorized")
         /\ UNCHANGED <<clock, CONFIG, engine>>
    ELSE /\ locked_accounts' =
                [u \in {v \in DOMAIN locked_accounts : is_account_locked(v)} |->
                    locked_accounts[u]]
         /\ resp' = InspectResp(200, InspectBody)
         /\ UNCHANGED <<clock, CONFIG, account_attempts, ip_attempts, blocked_ips,
                        global_attempts, global_block_until>>

\* GET /admin/config
admin_config_get(token) ==
    IF ~admin_auth(token)
    THEN /\ resp' = InspectResp(401, "unauthorized")
         /\ UNCHANGED <<clock, CONFIG, engine>>
    ELSE /\ resp' = InspectResp(200, InspectBody)
         /\ UNCHANGED <<clock, CONFIG, engine>>

Inspect ==
    /\ clock <= MaxTime
    /\ \E token \in Tokens : admin_config_get(token)
    /\ UNCHANGED threads

\* The reset leaving the global block deadline in place.
admin_reset_state_keeps_global(token) ==
    IF ~admin_auth(token)
    THEN /\ resp' = AdminResp("reset", 401)
         /\ UNCHANGED <<clock, CONFIG, engine>>
    ELSE /\ account_attempts' = EmptyDict
         /\ locked_accounts' = EmptyDict
         /\ ip_attempts' = EmptyDict
         /\ blocked_ips' = EmptyDict
         /\ global_attempts' = <<>>
         /\ resp' = AdminResp("reset", 200)
         /\ UNCHANGED <<clock, CONFIG, global_block_until>>

\* POST /admin/reset_state
admin_reset_state(token) ==
    IF ~admin_auth(token)
    THEN /\ resp' = AdminResp("reset", 401)
         /\ UNCHANGED <<clock, CONFIG, engine>>
    ELSE /\ account_attempts' = EmptyDict
         /\ locked_accounts' = EmptyDict
         /\ ip_attempts' = EmptyDict
         /\ blocked_ips' = EmptyDict
         /\ global_attempts' = <<>>
         /\ global_block_until' = 0
         /\ resp' = AdminResp("reset", 200)
         /\ UNCHANGED <<clock, CONFIG>>

ResetState ==
    /\ clock <= MaxTime
    /\ \E token \in Tokens : admin_reset_state(token)
    /\ UNCHANGED threads

\* Some lock or block is still running.
Pending ==
    \/ now < global_block_until
    \/ \E username \in DOMAIN locked_accounts : is_account_locked(username)
    \/ \E ip \in DOMAIN blocked_ips : is_ip_blocked(ip)

\* Time passes: up to MaxTime, and beyond it until every deadline is over.
Tick ==
    /\ clock < MaxTime \/ Pending
    /\ clock' = clock + 1
    /\ resp' = NoResp
    /\ UNCHANGED <<CONFIG, engine, threads>>

Reqs == 1..NReq

IdleReq == [pc |-> "idle", username |-> "", ip |-> "", decision |-> "",
            ts |-> 0, lst |-> <<>>, ilst |-> <<>>]

IdleCfg == [pc |-> "idle", left |-> <<>>]

Init ==
    /\ clock = 0
    /\ CONFIG = ScaledConfig
    /\ account_attempts = EmptyDict
    /\ locked_accounts = EmptyDict
    /\ ip_attempts = EmptyDict
    /\ blocked_ips = EmptyDict
    /\ global_attempts = <<>>
    /\ global_block_until = 0
    /\ resp = NoResp
    /\ req = [r \in Reqs |-> IdleReq]
    /\ a_owner = EmptyDict
    /\ i_owner = EmptyDict
    /\ rst = [pc |-> "idle", at |-> 0]
    /\ cfg = IdleCfg

\* Requests handled one at a time.
Next == Login \/ Configure \/ ResetState \/ Tick

Spec == Init /\ [][Next]_vars

\* The engine under one configuration, the scaled one or the scaled one with
\* one of the patches applied, and with time going on.
InitLive ==
    /\ clock = 0
    /\ CONFIG \in {ScaledConfig} \cup {merge_config(ScaledConfig, data) : data \in Patches}
    /\ account_attempts = EmptyDict
    /\ locked_accounts = EmptyDict
    /\ ip_attempts = EmptyDict
    /\ blocked_ips = EmptyDict
    /\ global_attempts = <<>>
    /\ global_block_until = 0
    /\ resp = NoResp
    /\ req = [r \in Reqs |-> IdleReq]
    /\ a_owner = EmptyDict
    /\ i_owner = EmptyDict
    /\ rst = [pc |-> "idle", at |-> 0]
    /\ cfg = IdleCfg

NextLive == Login \/ ResetState \/ Tick

SpecLive == InitLive /\ [][NextLive]_vars /\ WF_vars(Tick)

\* Bodies of POST /admin/config that set a window: to a negative value, and
\* to a single tick.
WindowPatches ==
    { [account_lock_window |-> -1],
      [ip_block_window |-> -1],
      [account_lock_window |-> 1] }

ConfigureWindows ==
    /\ clock <= MaxConfigTime
    /\ \E token \in Tokens, data \in WindowPatches : admin_config(token, data)
    /\ UNCHANGED threads

\* Requests handled one at a time, the operator posting window patches and
\* inspecting the state.
NextCfg == Login \/ ConfigureWindows \/ Inspect \/ ResetState \/ Tick

SpecCfg == Init /\ [][NextCfg]_vars

\* Window and duration of the account policy as the operator sets them
\* together: duration below the window, equal to it, above it.
TimingPatches ==
    { [account_lock_window |-> 2, account_lock_duration |-> 1],
      [account_lock_window |-> 2, account_lock_duration |-> 2],
      [account_lock_window |-> 1, account_lock_duration |-> 2] }

\* The engine under one of these settings, kept for the whole run.
InitTiming ==
    /\ clock = 0
    /\ CONFIG \in {merge_config(ScaledConfig, data) : data \in TimingPatches}
    /\ account_attempts = EmptyDict
    /\ locked_accounts = EmptyDict
    /\ ip_attempts = EmptyDict
    /\ blocked_ips = EmptyDict
    /\ global_attempts = <<>>
    /\ global_block_until = 0
    /\ resp = NoResp
    /\ req = [r \in Reqs |-> IdleReq]
    /\ a_owner = EmptyDict
    /\ i_owner = EmptyDict
    /\ rst = [pc |-> "idle", at |-> 0]
    /\ cfg = IdleCfg

SpecTiming == InitTiming /\ [][NextLive]_vars

\* ======================================================================
\* Overlapping handlers.  The server handles each request in a thread of its
\* own and the handlers take no lock.  A login request runs in four steps,
\* each a run of consecutive statements of the handler, and the reset handler
\* in three; between the steps the other threads and the clock may move.
\* The timestamp lists are objects: lst.append(ts) changes in place the list
\* the dictionary holds, and with it the lst of the request that stored it
\* there (a_owner, i_owner); prune_old returns a new list.
\* ======================================================================

SetReq(r, fields) ==
    [req EXCEPT ![r] = [f \in DOMAIN IdleReq |->
                            IF f \in DOMAIN fields THEN fields[f] ELSE req[r][f]]]

\* d with the list at key k, when there is one, replaced by obj.
InPlace(d, k, obj) == IF k \in DOMAIN d THEN [d EXCEPT ![k] = obj] ELSE d

\* Lines 178-197: the three checks.  The requests are numbered in the order
\* they arrive, and the first is for the first account from the first address
\* (the names are interchangeable).
StartLogin ==
    \E r \in Reqs, username \in Accounts, ip \in Addrs :
        /\ clock <= MaxConcTime
        /\ req[r].pc = "idle"
        /\ r > 1 => req[r - 1].pc # "idle"
        /\ r = 1 => (username = "u1" /\ ip = "x1")
        /\ LET decision == evaluate(username, ip)
           IN req' = SetReq(r, [pc |-> IF decision = "Admitted" THEN "record" ELSE "done",
                                username |-> username, ip |-> ip,
                                decision |-> decision])
        /\ UNCHANGED <<clock, CONFIG, engine, resp, a_owner, i_owner, rst, cfg>>

\* Lines 83-87: ts = now(); lst = account_attempts.get(username, []);
\* lst.append(ts); lst = prune_old(lst, window).
MeterAccount ==
    \E r \in Reqs :
        /\ req[r].pc = "record"
        /\ LET username == req[r].username
               obj == Append(Get(account_attempts, username, <<>>), now)
               lst == prune_old(obj, CONFIG.account_lock_window)
               shared == username \in DOMAIN account_attempts
                            /\ username \in DOMAIN a_owner
                            /\ req[a_owner[username]].pc # "done"
           IN /\ account_attempts' = InPlace(account_attempts, username, obj)
              /\ req' = [SetReq(r, [pc |-> "acct_pruned", ts |-> now, lst |-> lst])
                            EXCEPT ![IF shared THEN a_owner[username] ELSE r].lst =
                                        IF shared THEN obj ELSE lst]
        /\ UNCHANGED <<clock, CONFIG, locked_accounts, ip_attempts, blocked_ips,
                       global_attempts, global_block_until, resp, a_owner, i_owner,
                       rst, cfg>>

\* Lines 88-99: account_attempts[username] = lst; the same get, append, prune
\* and store for the address; global_attempts.append(ts) and the loop that
\* pops the old timestamps off its front.
StoreAndMeterRest ==
    \E r \in Reqs :
        /\ req[r].pc = "acct_pruned"
        /\ LET ip == req[r].ip
               obj == Append(Get(ip_attempts, ip, <<>>), req[r].ts)
               ilst == prune_old(obj, CONFIG.ip_block_window)
               shared == ip \in DOMAIN ip_attempts
                            /\ ip \in DOMAIN i_owner
                            /\ req[i_owner[ip]].pc # "done"
           IN /\ account_attempts' = Put(account_attempts, req[r].username, req[r].lst)
              /\ a_owner' = Put(a_owner, req[r].username, r)
              /\ ip_attempts' = Put(ip_attempts, ip, ilst)
              /\ i_owner' = Put(i_owner, ip, r)
              /\ req' = [SetReq(r, [pc |-> "metered", ilst |-> ilst])
                            EXCEPT ![IF shared THEN i_owner[ip] ELSE r].ilst =
                                        IF shared THEN obj ELSE ilst]
        /\ global_attempts' = pop_while(Append(global_attempts, req[r].ts),
                                        now - CONFIG.global_rate_window)
        /\ UNCHANGED <<clock, CONFIG, locked_accounts, blocked_ips,
                       global_block_until, resp, rst, cfg>>

\* Lines 101-113: the three threshold comparisons; then the response.  The
\* request's lists are dropped with its thread.
SetDeadlines ==
    \E r \in Reqs :
        /\ req[r].pc = "metered"
        /\ locked_accounts' =
            IF AccountBreached(req[r].lst)
            THEN Put(locked_accounts, req[r].username, now + CONFIG.account_lock_duration)
            ELSE locked_accounts
        /\ blocked_ips' =
            IF IpBreached(req[r].ilst)
            THEN Put(blocked_ips, req[r].ip, now + CONFIG.ip_block_duration)
            ELSE blocked_ips
        /\ global_block_until' =
            IF GlobalBreached(global_attempts)
            THEN now + CONFIG.global_block_duration
            ELSE global_block_until
        /\ req' = SetReq(r, [pc |-> "done", lst |-> <<>>, ilst |-> <<>>])
        /\ UNCHANGED <<clock, CONFIG, account_attempts, ip_attempts, global_attempts,
                       resp, a_owner, i_owner, rst, cfg>>

\* Lines 256-259 of the reset handler, its token being the configured one.
ResetAccounts ==
    /\ clock <= MaxConcTime
    /\ rst.pc = "idle"
    /\ account_attempts' = EmptyDict
    /\ locked_accounts' = EmptyDict
    /\ a_owner' = EmptyDict
    /\ rst' = [pc |-> "accounts_cleared", at |-> now]
    /\ UNCHANGED <<clock, CONFIG, ip_attempts, blocked_ips, global_attempts,
                   global_block_until, resp, req, i_owner, cfg>>

\* Lines 260-261.
ResetIps ==
    /\ rst.pc = "accounts_cleared"
    /\ ip_attempts' = EmptyDict
    /\ blocked_ips' = EmptyDict
    /\ i_owner' = EmptyDict
    /\ rst' = [rst EXCEPT !.pc = "ips_cleared"]
    /\ UNCHANGED <<clock, CONFIG, account_attempts, locked_accounts, global_attempts,
                   global_block_until, resp, req, a_owner, cfg>>

\* Lines 262-266.
ResetGlobal ==
    /\ rst.pc = "ips_cleared"
    /\ global_attempts' = <<>>
    /\ global_block_until' = 0
    /\ rst' = [rst EXCEPT !.pc = "done"]
    /\ UNCHANGED <<clock, CONFIG, account_attempts, locked_accounts, ip_attempts,
                   blocked_ips, resp, req, a_owner, i_owner, cfg>>

\* Time passes between the steps.
TickConc ==
    /\ clock < MaxConcTime
    /\ clock' = clock + 1
    /\ UNCHANGED <<CONFIG, engine, resp, threads>>

NextConc ==
    \/ StartLogin \/ MeterAccount \/ StoreAndMeterRest \/ SetDeadlines
    \/ ResetAccounts \/ ResetIps \/ ResetGlobal
    \/ TickConc

SpecConc == Init /\ [][NextConc]_vars

\* The body the operator tooling posts with all three policies switched off,
\* as the items of data.items() in the order of the body.
BulkPatch ==
    << <<"account_lock_threshold", Huge>>,
       <<"ip_block_threshold", Huge>>,
       <<"global_rate_threshold", Huge>> >>

\* The body as a mapping.
BulkData == [k \in {BulkPatch[i][1] : i \in 1..Len(BulkPatch)} |->
                BulkPatch[CHOOSE i \in 1..Len(BulkPatch) : BulkPatch[i][1] = k][2]]

\* Lines 227-247 of the config handler, its token being the configured one:
\* the body is parsed, the loop is about to start.
StartConfig ==
    /\ clock <= MaxConcTime
    /\ cfg.pc = "idle"
    /\ cfg' = [pc |-> "merging", left |-> BulkPatch]
    /\ UNCHANGED <<clock, CONFIG, engine, resp, req, a_owner, i_owner, rst>>

\* Lines 248-250: one iteration of the loop; after the last one the handler
\* returns.
ConfigureKey ==
    /\ cfg.pc = "merging"
    /\ LET k == Head(cfg.left)[1]
           v == Head(cfg.left)[2]
       IN CONFIG' = IF k \in allowed THEN [CONFIG EXCEPT ![k] = v] ELSE CONFIG
    /\ cfg' = [cfg EXCEPT !.left = Tail(cfg.left),
                          !.pc = IF Tail(cfg.left) = <<>> THEN "done" ELSE "merging"]
    /\ UNCHANGED <<clock, engine, resp, req, a_owner, i_owner, rst>>

\* Login requests overlapping with one another and with a config request.
NextTorn ==
    \/ StartLogin \/ MeterAccount \/ StoreAndMeterRest \/ SetDeadlines
    \/ StartConfig \/ ConfigureKey
    \/ TickConc

SpecTorn == Init /\ [][NextTorn]_vars

\* ======================================================================
\* Properties of the handlers run one at a time (Spec, SpecLive)
\* ======================================================================

\* A step is the handling of a /login request exactly if it leaves a login
\* response: every other handler leaves its own response and Tick clears it.
LoginStep == resp'.op = "login"
AdmittedStep == LoginStep /\ resp'.decision = "Admitted"
DeniedStep == LoginStep /\ resp'.decision # "Admitted"
ResetStep == resp'.op = "reset" /\ resp'.status = 200

unlockAt(username) == Get(locked_accounts, username, 0)
unblockAt(ip) == Get(blocked_ips, ip, 0)

\* Number of timestamps of a window that lie inside [t - window, ...], plus
\* the attempt being made at t.
CountInside(timestamps, t, window) ==
    Cardinality({i \in 1..Len(timestamps) : timestamps[i] >= t - window}) + 1

\* C1: every /login request gets exactly the decision of the strict
\* precedence global block > address block > account lock > admitted, taken
\* on the deadlines at the time of the request; in particular a request made
\* while a global and an address block are both active is GlobalBlocked.
C1_StrictPrecedence ==
    [][LoginStep =>
        LET u == resp'.username
            ip == resp'.ip
        IN /\ resp'.decision =
                IF clock < global_block_until THEN "GlobalBlocked"
                ELSE IF clock < unblockAt(ip) THEN "AddressBlocked"
                ELSE IF clock < unlockAt(u) THEN "AccountLocked"
                ELSE "Admitted"
           /\ (clock < global_block_until /\ clock < unblockAt(ip))
                => resp'.decision = "GlobalBlocked"]_vars

\* C1 witness: a request answered GlobalBlocked while its address is blocked
\* and its account locked as well.
C1_Witness ==
    /\ resp.op = "login" /\ resp.decision = "GlobalBlocked"
    /\ clock < unblockAt(resp.ip)
    /\ clock < unlockAt(resp.username)

\* C2: with threshold T, window W and duration D of the account policy, an
\* admitted attempt that is at most the (T-1)-th inside W leaves the account
\* unlocked; the admitted attempt that is the T-th inside W sets
\* unlockAt = (its time) + D; and while now < unlockAt the deadline stays as
\* it is (short of a reset) and every request for the account, address and
\* global state clear, is answered AccountLocked.
C2_LockAtThreshold ==
    [][\A u \in Accounts :
        LET T == CONFIG.account_lock_threshold
            W == CONFIG.account_lock_window
            D == CONFIG.account_lock_duration
            n == CountInside(Get(account_attempts, u, <<>>), clock, W)
        IN /\ (AdmittedStep /\ resp'.username = u) =>
                /\ n < T => /\ ~(clock' < Get(locked_accounts', u, 0))
                            /\ Get(locked_accounts', u, 0) = unlockAt(u)
                /\ n >= T => /\ u \in DOMAIN locked_accounts'
                             /\ locked_accounts'[u] = clock + D
           /\ (clock < unlockAt(u) /\ ~ResetStep) =>
                /\ Get(locked_accounts', u, 0) = unlockAt(u)
                /\ (LoginStep /\ resp'.username = u
                        /\ ~(clock < global_block_until)
                        /\ ~(clock < unblockAt(resp'.ip)))
                    => resp'.decision = "AccountLocked"]_vars

\* C2 witness: a request answered AccountLocked at a time after the attempt
\* that reached the threshold, inside the lock that attempt set.
C2_Witness ==
    LET u == resp.username
        lst == Get(account_attempts, u, <<>>)
    IN /\ resp.op = "login" /\ resp.decision = "AccountLocked"
       /\ Len(lst) = CONFIG.account_lock_threshold
       /\ clock > lst[Len(lst)]
       /\ unlockAt(u) = lst[Len(lst)] + CONFIG.account_lock_duration

\* C3: a request answered GlobalBlocked, AddressBlocked or AccountLocked
\* leaves every window and every deadline as it was; only an admitted
\* request meters.
C3_CheckThenRecord ==
    [][DeniedStep => UNCHANGED engine]_vars

\* C3 witness: a locked account is hit again with its window full: the
\* request is denied.
C3_Witness ==
    /\ resp.op = "login" /\ resp.decision = "AccountLocked"
    /\ resp.username \in DOMAIN account_attempts
    /\ Len(account_attempts[resp.username]) >= CONFIG.account_lock_threshold
    /\ clock = account_attempts[resp.username][1]

\* C4 (as claimed): short of a reset, a deadline that has been set stays set
\* and never decreases, whatever durations are configured in between.
C4_ExtendOnly ==
    [][~ResetStep =>
        /\ \A u \in DOMAIN locked_accounts :
              u \in DOMAIN locked_accounts' /\ locked_accounts'[u] >= locked_accounts[u]
        /\ \A ip \in DOMAIN blocked_ips :
              ip \in DOMAIN blocked_ips' /\ blocked_ips'[ip] >= blocked_ips[ip]
        /\ global_block_until' >= global_block_until]_vars

\* C8: an authorised reset empties every window, removes every lock and
\* block and sets the global deadline to 0, so that right after it evaluate
\* is Admitted for every account and address.
C8_ResetAdmits ==
    [][ResetStep =>
        /\ account_attempts' = EmptyDict /\ ip_attempts' = EmptyDict
        /\ global_attempts' = <<>>
        /\ locked_accounts' = EmptyDict /\ blocked_ips' = EmptyDict
        /\ global_block_until' = 0
        /\ \A u \in Accounts, ip \in Addrs :
              /\ ~(clock' < global_block_until')
              /\ ~(clock' < Get(blocked_ips', ip, 0))
              /\ ~(clock' < Get(locked_accounts', u, 0))]_vars

\* C8 witness: the state an authorised reset leaves, at a time by which
\* attempts have been metered and deadlines set.
C8_Witness ==
    /\ resp = AdminResp("reset", 200)
    /\ clock > 0
    /\ account_attempts = EmptyDict /\ ip_attempts = EmptyDict
    /\ global_attempts = <<>>
    /\ locked_accounts = EmptyDict /\ blocked_ips = EmptyDict
    /\ global_block_until = 0

\* C9: from the time unlockAt on (now >= unlockAt, no grace period) no request
\* for the account is answered AccountLocked; the passing of time alone ends
\* the lock, the engine's state being left as it is; and with time going on
\* every account lock, address block and global block ends.
C9_LockExpiry ==
    /\ [][(LoginStep /\ clock >= unlockAt(resp'.username))
            => resp'.decision # "AccountLocked"]_vars
    /\ [][clock' # clock =>
            /\ UNCHANGED engine
            /\ \A u \in Accounts, ip \in Addrs :
                  clock' >= unlockAt(u) => evaluate(u, ip)' # "AccountLocked"]_vars
    /\ \A u \in Accounts : (clock < unlockAt(u)) ~> (clock >= unlockAt(u))
    /\ \A ip \in Addrs : (clock < unblockAt(ip)) ~> (clock >= unblockAt(ip))
    /\ (clock < global_block_until) ~> (clock >= global_block_until)

\* C9 witness: a request for an account is admitted at the very time the
\* lock runs out that the account's second attempt had set: the window holds
\* the two attempts that locked it and the one admitted now.
C9_Witness ==
    LET lst == Get(account_attempts, resp.username, <<>>)
    IN /\ resp.op = "login" /\ resp.decision = "Admitted"
       /\ CONFIG.account_lock_threshold = 2
       /\ CONFIG.account_lock_duration > 0
       /\ Len(lst) = 3
       /\ lst[3] = clock
       /\ lst[2] + CONFIG.account_lock_duration = clock

\* C10: with threshold T, window W and duration D of the address policy, the
\* admitted attempt that is the T-th from its address inside W, whatever the
\* accounts named, sets the address's unblock time to (its time) + D, a
\* smaller count leaves the address unblocked; and while now < unblock time
\* the deadline stays (short of a reset) and every request from the address,
\* for any account, is answered AddressBlocked when no global block is active.
C10_BlockAtThreshold ==
    [][\A ip \in Addrs :
        LET T == CONFIG.ip_block_threshold
            W == CONFIG.ip_block_window
            D == CONFIG.ip_block_duration
            n == CountInside(Get(ip_attempts, ip, <<>>), clock, W)
        IN /\ (AdmittedStep /\ resp'.ip = ip) =>
                /\ n < T => /\ ~(clock' < Get(blocked_ips', ip, 0))
                            /\ Get(blocked_ips', ip, 0) = unblockAt(ip)
                /\ n >= T => /\ ip \in DOMAIN blocked_ips'
                             /\ blocked_ips'[ip] = clock + D
           /\ (clock < unblockAt(ip) /\ ~ResetStep) =>
                /\ Get(blocked_ips', ip, 0) = unblockAt(ip)
                /\ (LoginStep /\ resp'.ip = ip /\ ~(clock < global_block_until))
                    => resp'.decision = "AddressBlocked"]_vars

\* C10 witness: a request answered AddressBlocked for an account that has
\* never been metered, from an address whose window reached the threshold.
C10_Witness ==
    LET ilst == Get(ip_attempts, resp.ip, <<>>)
    IN /\ resp.op = "login" /\ resp.decision = "AddressBlocked"
       /\ resp.username \notin DOMAIN account_attempts
       /\ Len(ilst) = CONFIG.ip_block_threshold
       /\ unblockAt(resp.ip) = ilst[Len(ilst)] + CONFIG.ip_block_duration

\* C11: with threshold T, window W and duration D of the global policy, the
\* admitted attempt that is the T-th of all accounts and addresses inside W
\* sets global_block_until = (its time) + D and is itself admitted, a smaller
\* count leaves the deadline as it is; and while now < global_block_until the
\* deadline stays (short of a reset) and every request, for every account
\* and address, is answered GlobalBlocked.
C11_GlobalRateLimit ==
    [][LET T == CONFIG.global_rate_threshold
           W == CONFIG.global_rate_window
           D == CONFIG.global_block_duration
           n == CountInside(global_attempts, clock, W)
       IN /\ AdmittedStep =>
               /\ n < T => global_block_until' = global_block_until
               /\ n >= T => global_block_until' = clock + D
          /\ (LoginStep /\ global_block_until' # global_block_until)
               => resp'.decision = "Admitted"
          /\ (clock < global_block_until /\ ~ResetStep) =>
               /\ global_block_until' = global_block_until
               /\ LoginStep => resp'.decision = "GlobalBlocked"]_vars

\* C11 witness: a request for an account never metered, from an address never
\* metered, answered GlobalBlocked inside the block that the attempt reaching
\* the global threshold had set.
C11_Witness ==
    /\ resp.op = "login" /\ resp.decision = "GlobalBlocked"
    /\ resp.username \notin DOMAIN account_attempts
    /\ resp.ip \notin DOMAIN ip_attempts
    /\ Len(global_attempts) = CONFIG.global_rate_threshold
    /\ global_block_until =
            global_attempts[Len(global_attempts)] + CONFIG.global_block_duration

\* Number of times the timestamp t occurs in a window.
Occ(timestamps, t) == Cardinality({i \in 1..Len(timestamps) : timestamps[i] = t})

\* C12 (as claimed): an admitted request for account u from address ip adds
\* its timestamp exactly once to u's window, to ip's window and to the global
\* window, whatever the thresholds do, and leaves the window and the deadline
\* of every other account and every other address as they were.
C12_ThreeCounters ==
    [][AdmittedStep =>
        LET u == resp'.username
            ip == resp'.ip
        IN /\ u \in DOMAIN account_attempts'
           /\ Occ(account_attempts'[u], clock) =
                    Occ(Get(account_attempts, u, <<>>), clock) + 1
           /\ ip \in DOMAIN ip_attempts'
           /\ Occ(ip_attempts'[ip], clock) = Occ(Get(ip_attempts, ip, <<>>), clock) + 1
           /\ Occ(global_attempts', clock) = Occ(global_attempts, clock) + 1
           /\ \A v \in Accounts \ {u} :
                 /\ (v \in DOMAIN account_attempts') = (v \in DOMAIN account_attempts)
                 /\ Get(account_attempts', v, <<>>) = Get(account_attempts, v, <<>>)
                 /\ (v \in DOMAIN locked_accounts') = (v \in DOMAIN locked_accounts)
                 /\ Get(locked_accounts', v, 0) = Get(locked_accounts, v, 0)
           /\ \A y \in Addrs \ {ip} :
                 /\ (y \in DOMAIN ip_attempts') = (y \in DOMAIN ip_attempts)
                 /\ Get(ip_attempts', y, <<>>) = Get(ip_attempts, y, <<>>)
                 /\ (y \in DOMAIN blocked_ips') = (y \in DOMAIN blocked_ips)
                 /\ Get(blocked_ips', y, 0) = Get(blocked_ips, y, 0)]_vars

\* C13: while account_lock_threshold is the disabling value 999999, which no
\* window reaches, and no account lock is active, no request, however many
\* attempts the account has made, sets an account lock or is answered
\* AccountLocked.
C13_HugeThresholdDisables ==
    [][(/\ CONFIG.account_lock_threshold = Huge
        /\ CONFIG'.account_lock_threshold = Huge
        /\ \A u \in Accounts : ~(clock < unlockAt(u)))
       => /\ \A u \in Accounts : ~(clock' < Get(locked_accounts', u, 0))
          /\ locked_accounts' = locked_accounts \/ ResetStep
          /\ LoginStep => resp'.decision # "AccountLocked"]_vars

\* C13 witness: under the disabling threshold an account is admitted with
\* more attempts inside its window than the threshold in force before, and
\* has no lock.
C13_Witness ==
    LET u == resp.username
    IN /\ resp.op = "login" /\ resp.decision = "Admitted"
       /\ CONFIG.account_lock_threshold = Huge
       /\ Len(Get(account_attempts, u, <<>>)) > ScaledConfig.account_lock_threshold
       /\ u \notin DOMAIN locked_accounts

ConfigStep == resp'.op = "config"

\* C14: an authorised POST /admin/config with body data sets every key of
\* data that is on the whitelist to the value data gives it, keeps the value
\* of every other key of the configuration, adds no key (a key of data that
\* is not on the whitelist is dropped and the request still answered 200);
\* an unauthorised one leaves the configuration as it is.
C14_WhitelistMerge ==
    [][ConfigStep =>
        IF resp'.status = 200
        THEN \E data \in Patches :
                /\ DOMAIN CONFIG' = DOMAIN CONFIG
                /\ \A k \in DOMAIN CONFIG :
                      CONFIG'[k] = IF k \in DOMAIN data /\ k \in allowed
                                   THEN data[k] ELSE CONFIG[k]
        ELSE CONFIG' = CONFIG]_vars

\* C14 witness: the body with a whitelisted duration and a key that is not on
\* the whitelist has been applied: the duration is set, the key is absent.
C14_Witness ==
    /\ resp = AdminResp("config", 200)
    /\ CONFIG.account_lock_duration = 1
    /\ "bogus_key" \notin DOMAIN CONFIG
    /\ CONFIG.account_lock_threshold = Huge

\* C15 (as claimed): in every reachable state every threshold is a positive
\* integer and every window and every duration is non-negative.
C15_ConfigValid ==
    /\ \A k \in {"account_lock_threshold", "ip_block_threshold",
                  "global_rate_threshold"} :
            CONFIG[k] \in Nat /\ CONFIG[k] > 0
    /\ \A k \in {"account_lock_window", "ip_block_window", "global_rate_window",
                  "account_lock_duration", "ip_block_duration",
                  "global_block_duration"} :
            CONFIG[k] >= 0

InspectStep == resp'.op = "inspect"

\* C17: GET /admin/config leaves the configuration, every window and every
\* deadline as they were, and an authorised one returns the configuration,
\* the account -> unlock time mapping, the address -> unblock time mapping
\* and global_block_until as they are at the time of the request.
C17_InspectReadOnly ==
    [][InspectStep =>
        /\ UNCHANGED <<CONFIG, engine>>
        /\ resp'.status = 200 =>
              /\ resp'.body.config = CONFIG
              /\ resp'.body.locked_accounts = locked_accounts
              /\ resp'.body.blocked_ips = blocked_ips
              /\ resp'.body.global_block_until = global_block_until]_vars

\* C17 witness: an inspection that reports an expired account lock along
\* with a running address block and a running global block.
C17_Witness ==
    /\ resp.op = "inspect" /\ resp.status = 200
    /\ \E u \in DOMAIN resp.body.locked_accounts : ~is_account_locked(u)
    /\ \E ip \in DOMAIN resp.body.blocked_ips : is_ip_blocked(ip)
    /\ clock < resp.body.global_block_until

\* Number of timestamps of a window that are not older than now - window.
Fresh(timestamps, window) ==
    Cardinality({i \in 1..Len(timestamps) : timestamps[i] >= clock - window})

\* C18: an admitted attempt sets (or moves) the lock of its account only if
\* the attempts stored for the account with timestamp >= now - window, the
\* one just appended included, number at least the threshold; likewise for
\* the block of its address and for the global block.  So an account whose
\* attempts inside the window, the new one included, stay below the
\* threshold is not locked by the attempt.
C18_StaleNeverCounts ==
    [][AdmittedStep =>
        LET u == resp'.username
            ip == resp'.ip
            na == Fresh(Append(Get(account_attempts, u, <<>>), clock),
                        CONFIG.account_lock_window)
            ni == Fresh(Append(Get(ip_attempts, ip, <<>>), clock),
                        CONFIG.ip_block_window)
            ng == Fresh(Append(global_attempts, clock), CONFIG.global_rate_window)
        IN /\ (na < CONFIG.account_lock_threshold) =>
                /\ (u \in DOMAIN locked_accounts') = (u \in DOMAIN locked_accounts)
                /\ Get(locked_accounts', u, 0) = unlockAt(u)
           /\ (ni < CONFIG.ip_block_threshold) =>
                /\ (ip \in DOMAIN blocked_ips') = (ip \in DOMAIN blocked_ips)
                /\ Get(blocked_ips', ip, 0) = unblockAt(ip)
           /\ (ng < CONFIG.global_rate_threshold) =>
                global_block_until' = global_block_until]_vars

\* C18 witness: the only account ever metered has made as many attempts as
\* the threshold, the first of them older than the window at the time of the
\* last, and has never been locked.
C18_Witness ==
    LET u == resp.username
    IN /\ resp.op = "login" /\ resp.decision = "Admitted"
       /\ DOMAIN account_attempts = {u}
       /\ DOMAIN ip_attempts = {resp.ip}
       /\ Len(ip_attempts[resp.ip]) = CONFIG.account_lock_threshold
       /\ ip_attempts[resp.ip][1] < clock - CONFIG.account_lock_window
       /\ CONFIG.account_lock_window >= 0
       /\ account_attempts[u] = <<clock>>
       /\ u \notin DOMAIN locked_accounts

Sorted(timestamps) ==
    \A i \in 1..(Len(timestamps) - 1) : timestamps[i] <= timestamps[i + 1]

\* The window new is the window old with the attempt of this step appended
\* and exactly the timestamps older than now - window removed, in order.
PrunedFrom(new, old, window) ==
    /\ Sorted(new)
    /\ \A i \in 1..Len(new) : new[i] >= clock - window
    /\ \A t \in 0..clock :
          Occ(new, t) = IF t >= clock - window THEN Occ(Append(old, clock), t) ELSE 0

\* C19: after an admitted attempt the three windows it stored hold only
\* timestamps >= now - window, for the window sizes in force, in
\* non-decreasing order, and they are the old windows plus the attempt with
\* nothing but the older timestamps removed; every stored window is in
\* non-decreasing order; and pruning a stored window twice, with the same now
\* and window, gives what pruning it once gives.
C19_WindowInvariant ==
    /\ [][AdmittedStep =>
            LET u == resp'.username
                ip == resp'.ip
            IN /\ PrunedFrom(account_attempts'[u], Get(account_attempts, u, <<>>),
                             CONFIG.account_lock_window)
               /\ PrunedFrom(ip_attempts'[ip], Get(ip_attempts, ip, <<>>),
                             CONFIG.ip_block_window)
               /\ PrunedFrom(global_attempts', global_attempts,
                             CONFIG.global_rate_window)]_vars
    /\ [](/\ \A u \in DOMAIN account_attempts :
                /\ Sorted(account_attempts[u])
                /\ LET once == prune_old(account_attempts[u], CONFIG.account_lock_window)
                   IN prune_old(once, CONFIG.account_lock_window) = once
           /\ \A ip \in DOMAIN ip_attempts :
                /\ Sorted(ip_attempts[ip])
                /\ LET once == prune_old(ip_attempts[ip], CONFIG.ip_block_window)
                   IN prune_old(once, CONFIG.ip_block_window) = once
           /\ Sorted(global_attempts)
           /\ LET cut == now - CONFIG.global_rate_window
                  once == pop_while(global_attempts, cut)
              IN pop_while(once, cut) = once)

\* C19 witness: an admitted attempt whose address window keeps an earlier
\* timestamp, at the very cutoff of that window, that the global window,
\* being shorter, has dropped.
C19_Witness ==
    LET ilst == Get(ip_attempts, resp.ip, <<>>)
    IN /\ resp.op = "login" /\ resp.decision = "Admitted"
       /\ Len(ilst) >= 2
       /\ ilst[1] = clock - CONFIG.ip_block_window
       /\ ilst[1] < clock - CONFIG.global_rate_window
       /\ global_attempts = <<clock>>

\* C20 (as claimed): a request for an account and from an address that have
\* no entry in any dictionary, made while no global block is active, is
\* admitted, and it creates the window of the account and the window of the
\* address, each holding that one attempt.
C20_FreshKeys ==
    [][(/\ LoginStep
        /\ resp'.username \notin (DOMAIN account_attempts) \cup (DOMAIN locked_accounts)
        /\ resp'.ip \notin (DOMAIN ip_attempts) \cup (DOMAIN blocked_ips)
        /\ ~(clock < global_block_until))
       => /\ resp'.decision = "Admitted"
          /\ resp'.username \in DOMAIN account_attempts'
          /\ account_attempts'[resp'.username] = <<clock>>
          /\ resp'.ip \in DOMAIN ip_attempts'
          /\ ip_attempts'[resp'.ip] = <<clock>>]_vars

\* C21: POST /admin/config changes nothing but the configuration: every
\* window, every account lock, every address block and global_block_until
\* are as before, and so is the decision for every account and address; and
\* under whatever configuration, the disabling threshold included, the lock
\* of an account stays as it is while now < unlockAt, short of a reset, and a
\* request for the account, address and global state clear, is answered
\* AccountLocked.
C21_ConfigureKeepsDenials ==
    [][/\ ConfigStep =>
            /\ UNCHANGED engine
            /\ \A u \in Accounts, ip \in Addrs : evaluate(u, ip)' = evaluate(u, ip)
       /\ \A u \in Accounts :
            (clock < unlockAt(u) /\ ~ResetStep) =>
                /\ u \in DOMAIN locked_accounts'
                /\ locked_accounts'[u] = unlockAt(u)
                /\ (LoginStep /\ resp'.username = u
                        /\ ~(clock < global_block_until)
                        /\ ~(clock < unblockAt(resp'.ip)))
                    => resp'.decision = "AccountLocked"]_vars

\* C21 witness: at a later time a request for an account is answered
\* AccountLocked although the threshold is the disabling one: the lock was
\* set before the threshold was raised.
C21_Witness ==
    /\ resp.op = "login" /\ resp.decision = "AccountLocked"
    /\ CONFIG.account_lock_threshold = Huge
    /\ clock > 0
    /\ clock < unlockAt(resp.username)

\* C22: what an admitted request does to the windows and the deadlines is
\* the same whether it is answered 200 (credentials right) or 401: its
\* timestamp is added to the window of its account, of its address and to the
\* global window, no timestamp inside a window is removed, and each of the
\* three deadlines is set to now + duration exactly if the timestamps inside
\* the window, the new one included, reach the threshold.
C22_CredentialsIrrelevant ==
    [][\A status \in {200, 401} :
        (AdmittedStep /\ resp'.status = status) =>
            LET u == resp'.username
                ip == resp'.ip
                a == Get(account_attempts, u, <<>>)
                i == Get(ip_attempts, ip, <<>>)
                g == global_attempts
            IN /\ u \in DOMAIN account_attempts' /\ ip \in DOMAIN ip_attempts'
               /\ PrunedFrom(account_attempts'[u], a, CONFIG.account_lock_window)
               /\ PrunedFrom(ip_attempts'[ip], i, CONFIG.ip_block_window)
               /\ PrunedFrom(global_attempts', g, CONFIG.global_rate_window)
               /\ locked_accounts' =
                    IF Fresh(Append(a, clock), CONFIG.account_lock_window)
                            >= CONFIG.account_lock_threshold
                    THEN Put(locked_accounts, u, clock + CONFIG.account_lock_duration)
                    ELSE locked_accounts
               /\ blocked_ips' =
                    IF Fresh(Append(i, clock), CONFIG.ip_block_window)
                            >= CONFIG.ip_block_threshold
                    THEN Put(blocked_ips, ip, clock + CONFIG.ip_block_duration)
                    ELSE blocked_ips
               /\ global_block_until' =
                    IF Fresh(Append(g, clock), CONFIG.global_rate_window)
                            >= CONFIG.global_rate_threshold
                    THEN clock + CONFIG.global_block_duration
                    ELSE global_block_until]_vars

\* C22 witness: a login with the right credentials, answered 200, is the
\* attempt that reaches the account threshold and locks the account.
C22_Witness ==
    LET u == resp.username
        lst == Get(account_attempts, u, <<>>)
    IN /\ resp.op = "login" /\ resp.decision = "Admitted" /\ resp.status = 200
       /\ Len(lst) = CONFIG.account_lock_threshold
       /\ lst[Len(lst)] = clock
       /\ CONFIG.account_lock_duration > 0
       /\ unlockAt(u) = clock + CONFIG.account_lock_duration

\* The step admits the first attempt for u since the lock of u ran out: u has
\* an expired lock and no stored timestamp as late as its unlock time.
FirstAfterUnlock(u) ==
    /\ AdmittedStep /\ resp'.username = u
    /\ u \in DOMAIN locked_accounts /\ u \in DOMAIN account_attempts
    /\ \A i \in 1..Len(account_attempts[u]) : account_attempts[u][i] < unlockAt(u)

\* The step sets a new lock for u.
Relocks(u) ==
    /\ u \in DOMAIN locked_accounts'
    /\ locked_accounts'[u] = clock + CONFIG.account_lock_duration
    /\ locked_accounts'[u] # unlockAt(u)

\* Number of attempts for u, the one of this step included, made at or after
\* the unlock time of u.
SinceUnlock(u) ==
    Cardinality({i \in 1..Len(account_attempts[u]) :
                    account_attempts[u][i] >= unlockAt(u)}) + 1

\* The first attempt admitted after the lock ran out re-locks the account at
\* once when threshold - 1 of the earlier timestamps are still inside the
\* window.
RelocksAtOnce(u) ==
    (/\ FirstAfterUnlock(u)
     /\ Fresh(account_attempts[u], CONFIG.account_lock_window)
            >= CONFIG.account_lock_threshold - 1)
    => Relocks(u)

\* An admitted attempt sets a new lock for an account locked before only when
\* threshold-many attempts were admitted since the unlock time.
NeedsNewAttempts(u) ==
    (/\ AdmittedStep /\ resp'.username = u
     /\ u \in DOMAIN locked_accounts /\ u \in DOMAIN account_attempts
     /\ Relocks(u))
    => SinceUnlock(u) >= CONFIG.account_lock_threshold

Admitted(r) == req[r].pc = "done" /\ req[r].decision = "Admitted"

\* C5 (as claimed): when exactly two requests have run, both for the same
\* account, both admitted and both inside one window, their number being the
\* account threshold, and no reset has run, then, whatever the interleaving
\* of their steps, the account is locked once both are finished.
C5_ExactlyOneLock ==
    \A r1, r2 \in Reqs :
        (/\ r1 < r2
         /\ Admitted(r1) /\ Admitted(r2)
         /\ req[r1].username = req[r2].username
         /\ \A r \in Reqs \ {r1, r2} : req[r].pc = "idle"
         /\ rst.pc = "idle"
         /\ CONFIG.account_lock_threshold = 2
         /\ clock - req[r1].ts <= CONFIG.account_lock_window
         /\ clock - req[r2].ts <= CONFIG.account_lock_window)
        => is_account_locked(req[r1].username)

\* C6 (as claimed): the checks and the metering of one attempt are one atomic
\* step for its account and its address: no request starts to meter its
\* attempt, and so ends up admitted, at a time when the lock of its account
\* or the block of its address is active.
C6_CheckRecordAtomic ==
    [][\A r \in Reqs :
        (req[r].pc = "record" /\ req'[r].pc = "acct_pruned")
            => /\ ~is_account_locked(req[r].username)
               /\ ~is_ip_blocked(req[r].ip)]_vars

\* C7 (as claimed): once the reset handler has finished, the windows hold no
\* timestamp older than the reset.
C7_ResetAtomic ==
    rst.pc = "done" =>
        /\ \A u \in DOMAIN account_attempts :
              \A i \in 1..Len(account_attempts[u]) : account_attempts[u][i] >= rst.at
        /\ \A ip \in DOMAIN ip_attempts :
              \A i \in 1..Len(ip_attempts[ip]) : ip_attempts[ip][i] >= rst.at
        /\ \A i \in 1..Len(global_attempts) : global_attempts[i] >= rst.at

\* C16 (as claimed): the merge of one body is atomic for the requests that
\* run at the same time: when record_login_attempt compares the three window
\* lengths with the three thresholds, the configuration it reads is the one
\* before the body or the one with all keys of the body applied; and every
\* step of record_login_attempt taken after the config request has returned
\* reads the configuration with all keys applied.
C16_ConfigureAtomic ==
    [][LET before == ScaledConfig
           after == merge_config(ScaledConfig, BulkData)
       IN \A r \in Reqs :
            /\ (req[r].pc = "metered" /\ req'[r].pc = "done")
                    => CONFIG \in {before, after}
            /\ (req[r].pc \in {"record", "acct_pruned", "metered"}
                    /\ req'[r].pc # req[r].pc /\ cfg.pc = "done")
                    => CONFIG = after]_vars

====
